---- MODULE Spec2Model ----
(***************************************************************************)
(* A model of pkg/cluster/nodes/node.go: the node handle of a kind cluster *)
(* node, its lock-guarded metadata cache (nodeCache), the four lazily      *)
(* cached queries (KubeVersion, IP, Ports, Role) and the file and image    *)
(* operations (CopyTo, CopyFrom, WriteFile, ImageInspect,                  *)
(* LoadImageArchive).                                                      *)
(*                                                                         *)
(* Strings are sequences of one-character strings, so that strings.Trim,   *)
(* strconv.ParseInt and filepath.Dir are computed character by character.  *)
(* An error value is a sequence of layers, outermost first; the nil error  *)
(* is the empty sequence.                                                  *)
(***************************************************************************)
EXTENDS Integers, Sequences, FiniteSets, TLC

\* ------------------------------------------------------------------ bounds

\* Number of goroutines sharing the one Node handle.
NumThreads == 2

\* Total number of Node operations invoked in one behaviour.
MaxCalls == 2

\* Largest number of output lines the runtime answers a query with.
MaxLines == 2

\* bitSize 32 of strconv.ParseInt(lines[0], 10, 32): the largest int32.
Int32Max == 2147483647

MinInt32 == 0 - Int32Max - 1

Threads == 1..NumThreads

\* ----------------------------------------------------------------- strings

Quote == "'"
Slash == "/"
Dot == "."

Digits == <<"0", "1", "2", "3", "4", "5", "6", "7", "8", "9">>

IsDigit(c) == \E i \in 1..Len(Digits) : Digits[i] = c

DigitVal(c) == (CHOOSE i \in 1..Len(Digits) : Digits[i] = c) - 1

\* strings.TrimLeft / TrimRight for a one-character cutset.
RECURSIVE TrimLeft(_, _)
TrimLeft(s, c) ==
    IF s # <<>> /\ Head(s) = c THEN TrimLeft(Tail(s), c) ELSE s

RECURSIVE TrimRight(_, _)
TrimRight(s, c) ==
    IF s # <<>> /\ s[Len(s)] = c THEN TrimRight(SubSeq(s, 1, Len(s) - 1), c) ELSE s

\* A trim of the leading characters only (strings.TrimLeft in its place).
TrimLeadingOnly(s, c) == TrimLeft(s, c)

\* strings.Trim(s, cutset) for a one-character cutset: every leading and
\* every trailing occurrence of the character is removed.
Trim(s, c) == TrimRight(TrimLeft(s, c), c)

\* The digit loop of strconv.ParseUint together with ParseInt's range check
\* for bitSize 32.  The value is accumulated negated (nacc = -value), so that
\* 2^31, which a negative input may reach, is never formed as a positive
\* number; `min` is the least nacc allowed (-(2^31 - 1) for a positive
\* input, -2^31 for a negative one).  A non-digit is a syntax error; a value
\* past `min` is a range error once every character proved a digit.
RECURSIVE ParseDigits(_, _, _, _)
ParseDigits(s, nacc, over, min) ==
    IF s = <<>> THEN [err |-> IF over THEN "range" ELSE "nil", val |-> nacc]
    ELSE IF ~IsDigit(Head(s)) THEN [err |-> "syntax", val |-> 0]
    ELSE LET d == DigitVal(Head(s)) IN
      IF over \/ nacc < (min + d + 9) \div 10
        THEN ParseDigits(Tail(s), min, TRUE, min)
        ELSE ParseDigits(Tail(s), nacc * 10 - d, FALSE, min)

RECURSIVE SkipNonDigits(_)
SkipNonDigits(s) ==
    IF s = <<>> THEN 0
    ELSE IF IsDigit(Head(s)) THEN 0 - DigitVal(Head(s))
    ELSE SkipNonDigits(Tail(s))

\* A parser that never fails: what a missing check of strconv's error
\* would make of the line.
ParseIntLenient(s) == [err |-> "nil", val |-> 0 - SkipNonDigits(s)]

\* strconv.ParseInt(s, 10, 32): an optional sign, then decimal digits; the
\* value must fit in 32 bits.
ParseInt(s) ==
    IF s = <<>> THEN [err |-> "syntax", val |-> 0]
    ELSE
      LET neg  == Head(s) = "-"
          rest == IF Head(s) \in {"+", "-"} THEN Tail(s) ELSE s
          un   == IF rest = <<>> THEN [err |-> "syntax", val |-> 0]
                  ELSE ParseDigits(rest, 0, FALSE, IF neg THEN MinInt32 ELSE 0 - Int32Max)
      IN  IF un.err = "syntax" THEN [err |-> "syntax", val |-> 0]
          ELSE [err |-> un.err, val |-> IF neg THEN un.val ELSE 0 - un.val]

\* ------------------------------------------------------------ filepath.Dir

\* The components of a path between its separators ("" components kept).
RECURSIVE SplitPath(_, _)
SplitPath(p, cur) ==
    IF p = <<>> THEN <<cur>>
    ELSE IF Head(p) = Slash THEN <<cur>> \o SplitPath(Tail(p), <<>>)
    ELSE SplitPath(Tail(p), Append(cur, Head(p)))

RECURSIVE JoinPath(_)
JoinPath(cs) ==
    IF cs = <<>> THEN <<>>
    ELSE IF Len(cs) = 1 THEN cs[1]
    ELSE cs[1] \o <<Slash>> \o JoinPath(Tail(cs))

\* filepath.Clean's element loop: empty and "." elements are dropped, ".."
\* removes the element before it (or is kept at the start of a relative path).
RECURSIVE CleanElems(_, _, _)
CleanElems(cs, out, rooted) ==
    IF cs = <<>> THEN out
    ELSE LET c == Head(cs) IN
      IF c = <<>> \/ c = <<Dot>> THEN CleanElems(Tail(cs), out, rooted)
      ELSE IF c = <<Dot, Dot>> THEN
        IF out # <<>> /\ out[Len(out)] # <<Dot, Dot>>
          THEN CleanElems(Tail(cs), SubSeq(out, 1, Len(out) - 1), rooted)
        ELSE IF rooted THEN CleanElems(Tail(cs), out, rooted)
        ELSE CleanElems(Tail(cs), Append(out, c), rooted)
      ELSE CleanElems(Tail(cs), Append(out, c), rooted)

Clean(p) ==
    IF p = <<>> THEN <<Dot>>
    ELSE LET rooted == Head(p) = Slash
             body   == JoinPath(CleanElems(SplitPath(p, <<>>), <<>>, rooted))
         IN  IF rooted THEN <<Slash>> \o body
             ELSE IF body = <<>> THEN <<Dot>> ELSE body

LastSlash(p) ==
    IF \E i \in 1..Len(p) : p[i] = Slash
      THEN CHOOSE i \in 1..Len(p) : p[i] = Slash /\ \A j \in (i + 1)..Len(p) : p[j] # Slash
      ELSE 0

\* filepath.Dir(path): all but the last element of the path, cleaned.
Dir(p) == Clean(SubSeq(p, 1, LastSlash(p)))

\* ------------------------------------------------------------------ errors

\* The nil error.
Nil == <<>>

\* The error of a failed external call (a docker or exec failure), as the
\* runtime driver hands it over: no layer of this package on it.
RuntimeErr == <<[by |-> "runtime", text |-> "exit status 1", arg |-> <<>>]>>

\* errors.Wrap / errors.Wrapf: a layer of this package around err.
Wrap(err, text, arg) == <<[by |-> "node", text |-> text, arg |-> arg]>> \o err

\* errors.Errorf: a new error of this package.
Errorf(text, arg) == <<[by |-> "node", text |-> text, arg |-> arg]>>

\* The error strconv.ParseInt returns (a *strconv.NumError).
NumError(kind, s) == <<[by |-> "strconv", text |-> kind, arg |-> s]>>

\* fmt's %d of a line count.
FormatCount(n) == <<Digits[n + 1]>>

\* ----------------------------------------------------------------- runtime

ContainerPorts == {6443, 80}

VersionLines == {<<"v", "1">>, <<>>}
IPLines == {<<"1", "0">>, <<>>}
RoleLines == {<<Quote, "c", "p", Quote>>, <<"w">>, <<Quote, Quote>>}
PortLines == {<<"3", "2", "7", "6", "9">>, <<"x">>, <<"-", "5">>}
InspectLines == {<< <<"i", "d">>, <<"t", "a", "g">> >>}
Dests == {<<Slash, "a", Slash, "b", Slash, "c">>, <<"c">>}

RECURSIVE Rep(_, _)
Rep(l, n) == IF n = 0 THEN <<>> ELSE <<l>> \o Rep(l, n - 1)

\* A line of an answer of the wrong shape.  It differs from every fact, and
\* it would parse as a port.
Filler == <<"9">>

\* What exec.CombinedOutputLines / docker.Inspect can answer to a metadata
\* query: a failure, the one line that states the fact, or an answer of
\* another shape (no line, or two to MaxLines lines).  The fact a query
\* reports is invariant for the life of the handle: `known` holds the line
\* already reported (empty while the fact was never reported), `all` the
\* lines the fact may be.
RuntimeLines(known, all) ==
    {[err |-> RuntimeErr, lines |-> <<>>]} \cup
    {[err |-> Nil, lines |-> <<l>>] : l \in (IF known = {} THEN all ELSE known)} \cup
    {[err |-> Nil, lines |-> Rep(Filler, n)] : n \in (0..MaxLines) \ {1}}

Learn(known, out) ==
    IF out.err = Nil /\ Len(out.lines) = 1 THEN {out.lines[1]} ELSE known

\* What a command that only runs (mkdir, cp, ctr, docker cp) can answer.
RunResults == {Nil, RuntimeErr}

\* What the free-form crictl inspecti can answer.
InspectOutputs ==
    {[err |-> RuntimeErr, lines |-> <<>>]} \cup
    {[err |-> Nil, lines |-> ls] : ls \in InspectLines}

\* --------------------------------------------------------- getProxyDetails

\* strings.ToLower on the ASCII letters: each upper-case letter becomes its
\* lower-case letter, every other character is kept.
UpperLetters ==
    <<"A", "B", "C", "D", "E", "F", "G", "H", "I", "J", "K", "L", "M",
      "N", "O", "P", "Q", "R", "S", "T", "U", "V", "W", "X", "Y", "Z">>

LowerLetters ==
    <<"a", "b", "c", "d", "e", "f", "g", "h", "i", "j", "k", "l", "m",
      "n", "o", "p", "q", "r", "s", "t", "u", "v", "w", "x", "y", "z">>

ToLowerChar(c) ==
    IF \E i \in 1..Len(UpperLetters) : UpperLetters[i] = c
    THEN LowerLetters[CHOOSE i \in 1..Len(UpperLetters) : UpperLetters[i] = c]
    ELSE c

ToLowerKept(s) == s

ToLower(s) == [i \in 1..Len(s) |-> ToLowerChar(s[i])]

\* var proxyEnvs = []string{"HTTP_PROXY", "HTTPS_PROXY", "NO_PROXY"}
proxyEnvs ==
    << <<"H", "T", "T", "P", "_", "P", "R", "O", "X", "Y">>,
       <<"H", "T", "T", "P", "S", "_", "P", "R", "O", "X", "Y">>,
       <<"N", "O", "_", "P", "R", "O", "X", "Y">> >>

\* The three variables in both spellings, written out letter by letter so
\* that nothing of the function's own conversion is reused.
ProxyNamePairs ==
    { << <<"H", "T", "T", "P", "_", "P", "R", "O", "X", "Y">>,
         <<"h", "t", "t", "p", "_", "p", "r", "o", "x", "y">> >>,
      << <<"H", "T", "T", "P", "S", "_", "P", "R", "O", "X", "Y">>,
         <<"h", "t", "t", "p", "s", "_", "p", "r", "o", "x", "y">> >>,
      << <<"N", "O", "_", "P", "R", "O", "X", "Y">>,
         <<"n", "o", "_", "p", "r", "o", "x", "y">> >> }

\* The variables of the environment that the function can read, and the
\* values they take; os.Getenv answers "" for a variable that is unset.
EnvNames ==
    {pair[1] : pair \in ProxyNamePairs} \cup {pair[2] : pair \in ProxyNamePairs}

EnvValues == {"", "http://a:3128", "http://b:3128"}

Getenv(env, name) == IF name \in DOMAIN env THEN env[name] ELSE ""

EmptyEnvs == [n \in {} |-> ""]

MapPut(m, k, v) == [x \in DOMAIN m \cup {k} |-> IF x = k THEN v ELSE m[x]]

\* One iteration of the loop over proxyEnvs: the upper-case variable first,
\* the lower-case one only when the upper-case one reads as empty.
proxyIteration(env, envs, name) ==
    LET val == Getenv(env, name)
    IN  IF val # ""
        THEN MapPut(envs, name, val)
        ELSE LET val2 == Getenv(env, ToLower(name))
             IN  IF val2 # "" THEN MapPut(envs, name, val2) ELSE envs

\* ------------------------------------------------------------------- state

VARIABLES
    cache,   \* the nodeCache: kubernetesVersion, ip, ports, role
    mu,      \* nodeCache.mu: w = holder of the writer mutex, readers
    th,      \* per goroutine: the operation it runs and where it is
    fact,    \* the runtime: the line each fact was reported as so far
    ncalls,  \* operations invoked so far
    environ, \* the process environment getProxyDetails reads
    details, \* getProxyDetails: details.Envs as built so far
    proxyIdx \* getProxyDetails: index of the next name of proxyEnvs

nodeVars == <<cache, mu, th, fact, ncalls>>

proxyVars == <<environ, details, proxyIdx>>

vars == <<cache, mu, th, fact, ncalls, environ, details, proxyIdx>>

EmptyMap == [p \in {} |-> 0]

Idle ==
    [pc |-> "idle", op |-> "none", port |-> 0, dest |-> <<>>, ret |-> <<>>,
     hostPort |-> 0, err |-> Nil, cmds |-> <<>>,
     out |-> [err |-> Nil, lines |-> <<>>], warm |-> FALSE]

Init ==
    /\ cache = [kubernetesVersion |-> <<>>, ip |-> <<>>, role |-> <<>>,
                ports |-> [nil |-> TRUE, m |-> EmptyMap]]
    /\ mu = [w |-> {}, readers |-> {}]
    /\ th = [t \in Threads |-> Idle]
    /\ fact = [version |-> {}, ip |-> {}, role |-> {},
               ports |-> [p \in ContainerPorts |-> {}]]
    /\ ncalls = 0
    /\ environ = [n \in EnvNames |-> ""]
    /\ details = EmptyEnvs
    /\ proxyIdx = 1

\* --------------------------------------------------------------- nodeCache

\* sync.RWMutex as nodeCache uses it.  Lock takes the writer mutex, which
\* stops new readers, and then waits for the readers inside to leave.
CanRLock(m) == m.w = {}

CanLock(m) == m.w = {}

\* A Lock that does not wait for the readers inside (an RLock in its place).
DrainedAlways(m) == TRUE

Drained(m) == m.readers = {}

\* An accessor that reads the field next to its own.
nodeCache_KubeVersionWrongField(c) == c.ip

nodeCache_KubeVersion(c) == c.kubernetesVersion

nodeCache_IP(c) == c.ip

nodeCache_HostPortNilInverted(c, p) ==
    IF ~c.ports.nil THEN [v |-> 0, ok |-> FALSE]
    ELSE [v |-> 0, ok |-> FALSE]

nodeCache_HostPort(c, p) ==
    IF c.ports.nil THEN [v |-> 0, ok |-> FALSE]
    ELSE IF p \in DOMAIN c.ports.m THEN [v |-> c.ports.m[p], ok |-> TRUE]
    ELSE [v |-> 0, ok |-> FALSE]

nodeCache_Role(c) == c.role

\* The setter functions handed to nodeCache.set.
KubeVersionSetterDropped(c, version) == c

KubeVersionSetter(c, version) == [c EXCEPT !.kubernetesVersion = version]

\* A setter written from KubeVersion's that still assigns its field.
IPSetterWrongField(c, ip) == [c EXCEPT !.kubernetesVersion = ip]

IPSetter(c, ip) == [c EXCEPT !.ip = ip]

\* A setter that makes a new map on every call.
PortsSetterFreshMap(c, containerPort, hostPort) ==
    [c EXCEPT !.ports = [nil |-> FALSE,
                         m   |-> [q \in {containerPort} |-> hostPort]]]

PortsSetter(c, containerPort, hostPort) ==
    LET m == IF c.ports.nil THEN EmptyMap ELSE c.ports.m
    IN  [c EXCEPT !.ports =
            [nil |-> FALSE,
             m   |-> [q \in DOMAIN m \cup {containerPort} |->
                         IF q = containerPort THEN hostPort ELSE m[q]]]]

RoleSetterWholeStruct(c, role) ==
    [kubernetesVersion |-> <<>>, ip |-> <<>>, role |-> role,
     ports |-> [nil |-> TRUE, m |-> EmptyMap]]

RoleSetter(c, role) == [c EXCEPT !.role = role]

\* ---------------------------------------- what each operation computes

\* The commands a Node operation issues to the runtime.
Cmd(name, port, path) == [cmd |-> name, port |-> port, path |-> path]

\* A check of the line count that only refuses an empty answer.
KubeVersionResultFirstLine(out) ==
    IF out.err # Nil
      THEN [ok |-> FALSE, val |-> <<>>, err |-> Wrap(out.err, "failed to get file", <<>>)]
    ELSE IF Len(out.lines) < 1
      THEN [ok |-> FALSE, val |-> <<>>,
            err |-> Errorf("file should only be one line, got %d lines",
                           FormatCount(Len(out.lines)))]
    ELSE [ok |-> TRUE, val |-> out.lines[1], err |-> Nil]

\* Node.KubeVersion after exec.CombinedOutputLines returned `out`.
KubeVersionResult(out) ==
    IF out.err # Nil
      THEN [ok |-> FALSE, val |-> <<>>, err |-> Wrap(out.err, "failed to get file", <<>>)]
    ELSE IF Len(out.lines) # 1
      THEN [ok |-> FALSE, val |-> <<>>,
            err |-> Errorf("file should only be one line, got %d lines",
                           FormatCount(Len(out.lines)))]
    ELSE [ok |-> TRUE, val |-> out.lines[1], err |-> Nil]

\* Node.IP after docker.Inspect returned `out`.
IPResult(out) ==
    IF out.err # Nil
      THEN [ok |-> FALSE, val |-> <<>>, err |-> Wrap(out.err, "failed to get file", <<>>)]
    ELSE IF Len(out.lines) # 1
      THEN [ok |-> FALSE, val |-> <<>>,
            err |-> Errorf("file should only be one line, got %d lines",
                           FormatCount(Len(out.lines)))]
    ELSE [ok |-> TRUE, val |-> out.lines[1], err |-> Nil]

\* Node.Ports after docker.Inspect returned `out`.
PortsResultParseIgnored(out) ==
    IF out.err # Nil
      THEN [ok |-> FALSE, val |-> -1, err |-> Wrap(out.err, "failed to get file", <<>>)]
    ELSE IF Len(out.lines) # 1
      THEN [ok |-> FALSE, val |-> -1,
            err |-> Errorf("file should only be one line, got %d lines",
                           FormatCount(Len(out.lines)))]
    ELSE [ok |-> TRUE, val |-> ParseInt(out.lines[1]).val, err |-> Nil]

PortsResult(out) ==
    IF out.err # Nil
      THEN [ok |-> FALSE, val |-> -1, err |-> Wrap(out.err, "failed to get file", <<>>)]
    ELSE IF Len(out.lines) # 1
      THEN [ok |-> FALSE, val |-> -1,
            err |-> Errorf("file should only be one line, got %d lines",
                           FormatCount(Len(out.lines)))]
    ELSE LET parsed == ParseInt(out.lines[1]) IN
      IF parsed.err # "nil"
        THEN [ok |-> FALSE, val |-> -1,
              err |-> Wrap(NumError(parsed.err, out.lines[1]), "failed to get file", <<>>)]
      ELSE [ok |-> TRUE, val |-> parsed.val, err |-> Nil]

\* Node.Role after docker.Inspect returned `out`.
RoleResult(out) ==
    IF out.err # Nil
      THEN [ok |-> FALSE, val |-> <<>>, err |-> Wrap(out.err, "failed to get %q label", <<>>)]
    ELSE IF Len(out.lines) # 1
      THEN [ok |-> FALSE, val |-> <<>>,
            err |-> Errorf("%q label should only be one line, got %d lines",
                           FormatCount(Len(out.lines)))]
    ELSE [ok |-> TRUE, val |-> Trim(out.lines[1], Quote), err |-> Nil]

\* Node.CopyTo / Node.CopyFrom: the error of docker.CopyTo / docker.CopyFrom.
CopyToResult(e) == e

CopyFromResult(e) == e

\* Node.WriteFile: the command issued first, and what follows its result.
WriteFileFirstCmd(dest) == Cmd("mkdir -p", 0, Dir(dest))

\* A WriteFile that does not look at the result of mkdir.
WriteFileMkdirIgnored(e, dest) == [ok |-> TRUE, err |-> Nil]

WriteFileMkdirResult(e, dest) ==
    IF e # Nil
      THEN [ok |-> FALSE, err |-> Wrap(e, "failed to create directory %s", dest)]
      ELSE [ok |-> TRUE, err |-> Nil]

WriteFileSecondCmd(dest) == Cmd("cp /dev/stdin", 0, dest)

WriteFileCpResult(e, dest) == e

\* Node.ImageInspect: the lines and the error of exec.CombinedOutputLines.
ImageInspectResult(out) == [val |-> out.lines, err |-> out.err]

\* A LoadImageArchive that drops the error of Run.
LoadImageArchiveSwallowed(e) == Nil

\* Node.LoadImageArchive.
LoadImageArchiveResult(e) ==
    IF e # Nil THEN Wrap(e, "failed to load image", <<>>) ELSE Nil

\* ----------------------------------------------------------------- actions

Callable(t) == th[t].pc \in {"idle", "done"} /\ ncalls < MaxCalls

Start(t, op, port, dest, pc, cmds, warm) ==
    /\ th' = [th EXCEPT ![t] = [Idle EXCEPT !.pc = pc, !.op = op, !.port = port,
                                            !.dest = dest, !.cmds = cmds,
                                            !.warm = warm]]
    /\ ncalls' = ncalls + 1

Return(t, ret, err) ==
    th' = [th EXCEPT ![t].pc = "done", ![t].ret = ret, ![t].err = err]

ReturnPort(t, hostPort, err) ==
    th' = [th EXCEPT ![t].pc = "done", ![t].hostPort = hostPort, ![t].err = err]

\* cache.mu.RLock() of the four read accessors.
nodeCache_RLock(t) ==
    /\ th[t].pc = "rlock"
    /\ CanRLock(mu)
    /\ mu' = [mu EXCEPT !.readers = @ \cup {t}]
    /\ th' = [th EXCEPT ![t].pc = "rlocked"]
    /\ UNCHANGED <<proxyVars, cache, fact, ncalls>>

RUnlockForgotten(t) == mu' = mu

RUnlock(t) == mu' = [mu EXCEPT !.readers = @ \ {t}]

\* cache.mu.Lock() of nodeCache.set: the writer mutex, then the readers.
set_Lock(t) ==
    /\ th[t].pc = "lock"
    /\ CanLock(mu)
    /\ mu' = [mu EXCEPT !.w = {t}]
    /\ th' = [th EXCEPT ![t].pc = "drain"]
    /\ UNCHANGED <<proxyVars, cache, fact, ncalls>>

set_Locked(t) ==
    /\ th[t].pc = "drain"
    /\ Drained(mu)
    /\ th' = [th EXCEPT ![t].pc = "setter"]
    /\ UNCHANGED <<proxyVars, cache, mu, fact, ncalls>>

UnlockForgotten(t) == mu' = mu

Unlock(t) == mu' = [mu EXCEPT !.w = @ \ {t}]

\* ---- Node.KubeVersion
KubeVersion_Call(t) ==
    /\ Callable(t)
    /\ Start(t, "KubeVersion", 0, <<>>, "rlock", <<>>, cache.kubernetesVersion # <<>>)
    /\ UNCHANGED <<proxyVars, cache, mu, fact>>

KubeVersion_Cached(t) ==
    /\ th[t].pc = "rlocked" /\ th[t].op = "KubeVersion"
    /\ RUnlock(t)
    /\ LET cachedVersion == nodeCache_KubeVersion(cache) IN
         IF cachedVersion # <<>>
           THEN Return(t, cachedVersion, Nil)
           ELSE th' = [th EXCEPT ![t].pc = "exec",
                                 ![t].cmds = Append(@, Cmd("cat /kind/version", 0, <<>>))]
    /\ UNCHANGED <<proxyVars, cache, fact, ncalls>>

KubeVersion_Output(t) ==
    /\ th[t].pc = "exec" /\ th[t].op = "KubeVersion"
    /\ \E out \in RuntimeLines(fact.version, VersionLines) :
         LET r == KubeVersionResult(out) IN
           /\ fact' = [fact EXCEPT !.version = Learn(@, out)]
           /\ th' = [th EXCEPT ![t].out = out, ![t].ret = r.val, ![t].err = r.err,
                               ![t].pc = IF r.ok THEN "lock" ELSE "done"]
    /\ UNCHANGED <<proxyVars, cache, mu, ncalls>>

KubeVersion_Set(t) ==
    /\ th[t].pc = "setter" /\ th[t].op = "KubeVersion"
    /\ cache' = KubeVersionSetter(cache, th[t].ret)
    /\ Unlock(t)
    /\ Return(t, th[t].ret, Nil)
    /\ UNCHANGED <<proxyVars, fact, ncalls>>

\* ---- Node.IP
IP_Call(t) ==
    /\ Callable(t)
    /\ Start(t, "IP", 0, <<>>, "rlock", <<>>, cache.ip # <<>>)
    /\ UNCHANGED <<proxyVars, cache, mu, fact>>

IP_Cached(t) ==
    /\ th[t].pc = "rlocked" /\ th[t].op = "IP"
    /\ RUnlock(t)
    /\ LET cachedIP == nodeCache_IP(cache) IN
         IF cachedIP # <<>>
           THEN Return(t, cachedIP, Nil)
           ELSE th' = [th EXCEPT ![t].pc = "exec",
                                 ![t].cmds = Append(@, Cmd("inspect IPAddress", 0, <<>>))]
    /\ UNCHANGED <<proxyVars, cache, fact, ncalls>>

IP_Output(t) ==
    /\ th[t].pc = "exec" /\ th[t].op = "IP"
    /\ \E out \in RuntimeLines(fact.ip, IPLines) :
         LET r == IPResult(out) IN
           /\ fact' = [fact EXCEPT !.ip = Learn(@, out)]
           /\ th' = [th EXCEPT ![t].out = out, ![t].ret = r.val, ![t].err = r.err,
                               ![t].pc = IF r.ok THEN "lock" ELSE "done"]
    /\ UNCHANGED <<proxyVars, cache, mu, ncalls>>

IP_Set(t) ==
    /\ th[t].pc = "setter" /\ th[t].op = "IP"
    /\ cache' = IPSetter(cache, th[t].ret)
    /\ Unlock(t)
    /\ Return(t, th[t].ret, Nil)
    /\ UNCHANGED <<proxyVars, fact, ncalls>>

\* ---- Node.Ports
Ports_Call(t) ==
    /\ Callable(t)
    /\ \E containerPort \in ContainerPorts :
         Start(t, "Ports", containerPort, <<>>, "rlock", <<>>,
               ~cache.ports.nil /\ containerPort \in DOMAIN cache.ports.m)
    /\ UNCHANGED <<proxyVars, cache, mu, fact>>

Ports_Cached(t) ==
    /\ th[t].pc = "rlocked" /\ th[t].op = "Ports"
    /\ RUnlock(t)
    /\ LET hit == nodeCache_HostPort(cache, th[t].port) IN
         IF hit.ok
           THEN ReturnPort(t, hit.v, Nil)
           ELSE th' = [th EXCEPT ![t].pc = "exec", ![t].hostPort = hit.v,
                                 ![t].cmds = Append(@, Cmd("inspect HostPort", th[t].port, <<>>))]
    /\ UNCHANGED <<proxyVars, cache, fact, ncalls>>

Ports_Output(t) ==
    /\ th[t].pc = "exec" /\ th[t].op = "Ports"
    /\ \E out \in RuntimeLines(fact.ports[th[t].port], PortLines) :
         LET r == PortsResult(out) IN
           /\ fact' = [fact EXCEPT !.ports[th[t].port] = Learn(@, out)]
           /\ th' = [th EXCEPT ![t].out = out, ![t].hostPort = r.val, ![t].err = r.err,
                               ![t].pc = IF r.ok THEN "lock" ELSE "done"]
    /\ UNCHANGED <<proxyVars, cache, mu, ncalls>>

Ports_Set(t) ==
    /\ th[t].pc = "setter" /\ th[t].op = "Ports"
    /\ cache' = PortsSetter(cache, th[t].port, th[t].hostPort)
    /\ Unlock(t)
    /\ ReturnPort(t, th[t].hostPort, Nil)
    /\ UNCHANGED <<proxyVars, fact, ncalls>>

\* ---- Node.Role
Role_Call(t) ==
    /\ Callable(t)
    /\ Start(t, "Role", 0, <<>>, "rlock", <<>>, cache.role # <<>>)
    /\ UNCHANGED <<proxyVars, cache, mu, fact>>

Role_Cached(t) ==
    /\ th[t].pc = "rlocked" /\ th[t].op = "Role"
    /\ RUnlock(t)
    /\ LET role == nodeCache_Role(cache) IN
         IF role # <<>>
           THEN Return(t, role, Nil)
           ELSE th' = [th EXCEPT ![t].pc = "exec",
                                 ![t].cmds = Append(@, Cmd("inspect Labels", 0, <<>>))]
    /\ UNCHANGED <<proxyVars, cache, fact, ncalls>>

Role_Output(t) ==
    /\ th[t].pc = "exec" /\ th[t].op = "Role"
    /\ \E out \in RuntimeLines(fact.role, RoleLines) :
         LET r == RoleResult(out) IN
           /\ fact' = [fact EXCEPT !.role = Learn(@, out)]
           /\ th' = [th EXCEPT ![t].out = out, ![t].ret = r.val, ![t].err = r.err,
                               ![t].pc = IF r.ok THEN "lock" ELSE "done"]
    /\ UNCHANGED <<proxyVars, cache, mu, ncalls>>

Role_Set(t) ==
    /\ th[t].pc = "setter" /\ th[t].op = "Role"
    /\ cache' = RoleSetter(cache, th[t].ret)
    /\ Unlock(t)
    /\ Return(t, th[t].ret, Nil)
    /\ UNCHANGED <<proxyVars, fact, ncalls>>

\* ---- Node.CopyTo
CopyTo_Call(t) ==
    /\ Callable(t)
    /\ Start(t, "CopyTo", 0, <<>>, "exec", <<Cmd("docker cp to", 0, <<>>)>>, FALSE)
    /\ UNCHANGED <<proxyVars, cache, mu, fact>>

CopyTo_Return(t) ==
    /\ th[t].pc = "exec" /\ th[t].op = "CopyTo"
    /\ \E e \in RunResults :
         th' = [th EXCEPT ![t].pc = "done", ![t].out = [err |-> e, lines |-> <<>>],
                          ![t].err = CopyToResult(e)]
    /\ UNCHANGED <<proxyVars, cache, mu, fact, ncalls>>

\* ---- Node.CopyFrom
CopyFrom_Call(t) ==
    /\ Callable(t)
    /\ Start(t, "CopyFrom", 0, <<>>, "exec", <<Cmd("docker cp from", 0, <<>>)>>, FALSE)
    /\ UNCHANGED <<proxyVars, cache, mu, fact>>

CopyFrom_Return(t) ==
    /\ th[t].pc = "exec" /\ th[t].op = "CopyFrom"
    /\ \E e \in RunResults :
         th' = [th EXCEPT ![t].pc = "done", ![t].out = [err |-> e, lines |-> <<>>],
                          ![t].err = CopyFromResult(e)]
    /\ UNCHANGED <<proxyVars, cache, mu, fact, ncalls>>

\* ---- Node.WriteFile
WriteFile_Call(t) ==
    /\ Callable(t)
    /\ \E dest \in Dests :
         Start(t, "WriteFile", 0, dest, "exec", <<WriteFileFirstCmd(dest)>>, FALSE)
    /\ UNCHANGED <<proxyVars, cache, mu, fact>>

WriteFile_Mkdir(t) ==
    /\ th[t].pc = "exec" /\ th[t].op = "WriteFile"
    /\ \E e \in RunResults :
         LET r == WriteFileMkdirResult(e, th[t].dest) IN
           th' = [th EXCEPT ![t].out = [err |-> e, lines |-> <<>>],
                            ![t].err = r.err,
                            ![t].pc = IF r.ok THEN "exec2" ELSE "done",
                            ![t].cmds = IF r.ok
                                          THEN Append(@, WriteFileSecondCmd(th[t].dest))
                                          ELSE @]
    /\ UNCHANGED <<proxyVars, cache, mu, fact, ncalls>>

WriteFile_Cp(t) ==
    /\ th[t].pc = "exec2" /\ th[t].op = "WriteFile"
    /\ \E e \in RunResults :
         th' = [th EXCEPT ![t].pc = "done", ![t].out = [err |-> e, lines |-> <<>>],
                          ![t].err = WriteFileCpResult(e, th[t].dest)]
    /\ UNCHANGED <<proxyVars, cache, mu, fact, ncalls>>

\* ---- Node.ImageInspect
ImageInspect_Call(t) ==
    /\ Callable(t)
    /\ Start(t, "ImageInspect", 0, <<>>, "exec", <<Cmd("crictl inspecti", 0, <<>>)>>, FALSE)
    /\ UNCHANGED <<proxyVars, cache, mu, fact>>

ImageInspect_Return(t) ==
    /\ th[t].pc = "exec" /\ th[t].op = "ImageInspect"
    /\ \E out \in InspectOutputs :
         LET r == ImageInspectResult(out) IN
           th' = [th EXCEPT ![t].pc = "done", ![t].out = out,
                            ![t].ret = r.val, ![t].err = r.err]
    /\ UNCHANGED <<proxyVars, cache, mu, fact, ncalls>>

\* ---- Node.LoadImageArchive
LoadImageArchive_Call(t) ==
    /\ Callable(t)
    /\ Start(t, "LoadImageArchive", 0, <<>>, "exec", <<Cmd("ctr images import", 0, <<>>)>>, FALSE)
    /\ UNCHANGED <<proxyVars, cache, mu, fact>>

LoadImageArchive_Return(t) ==
    /\ th[t].pc = "exec" /\ th[t].op = "LoadImageArchive"
    /\ \E e \in RunResults :
         th' = [th EXCEPT ![t].pc = "done", ![t].out = [err |-> e, lines |-> <<>>],
                          ![t].err = LoadImageArchiveResult(e)]
    /\ UNCHANGED <<proxyVars, cache, mu, fact, ncalls>>

\* ------------------------------------------------------------ specification

Next ==
    \E t \in Threads :
        \/ nodeCache_RLock(t)
        \/ set_Lock(t)
        \/ set_Locked(t)
        \/ KubeVersion_Call(t)
        \/ KubeVersion_Cached(t)
        \/ KubeVersion_Output(t)
        \/ KubeVersion_Set(t)
        \/ IP_Call(t)
        \/ IP_Cached(t)
        \/ IP_Output(t)
        \/ IP_Set(t)
        \/ Ports_Call(t)
        \/ Ports_Cached(t)
        \/ Ports_Output(t)
        \/ Ports_Set(t)
        \/ Role_Call(t)
        \/ Role_Cached(t)
        \/ Role_Output(t)
        \/ Role_Set(t)
        \/ CopyTo_Call(t)
        \/ CopyTo_Return(t)
        \/ CopyFrom_Call(t)
        \/ CopyFrom_Return(t)
        \/ WriteFile_Call(t)
        \/ WriteFile_Mkdir(t)
        \/ WriteFile_Cp(t)
        \/ ImageInspect_Call(t)
        \/ ImageInspect_Return(t)
        \/ LoadImageArchive_Call(t)
        \/ LoadImageArchive_Return(t)

Spec == Init /\ [][Next]_vars

\* The steps of caller t other than the invocation of an operation: taking
\* and releasing the lock, reading the cache, receiving the answer of an
\* external command, running a setter, returning.
Progress(t) ==
    \/ nodeCache_RLock(t)
    \/ set_Lock(t)
    \/ set_Locked(t)
    \/ KubeVersion_Cached(t) \/ KubeVersion_Output(t) \/ KubeVersion_Set(t)
    \/ IP_Cached(t) \/ IP_Output(t) \/ IP_Set(t)
    \/ Ports_Cached(t) \/ Ports_Output(t) \/ Ports_Set(t)
    \/ Role_Cached(t) \/ Role_Output(t) \/ Role_Set(t)
    \/ CopyTo_Return(t)
    \/ CopyFrom_Return(t)
    \/ WriteFile_Mkdir(t) \/ WriteFile_Cp(t)
    \/ ImageInspect_Return(t)
    \/ LoadImageArchive_Return(t)

\* Fair scheduling: a goroutine that can take its next step is not left
\* waiting for ever, and every external command eventually answers. Nothing
\* obliges anyone to invoke an operation.
FairSpec == Spec /\ \A t \in Threads : WF_vars(Progress(t))

\* The specification of getProxyDetails: the environment is any assignment
\* of values to the six variables, and each step is one iteration of the
\* loop; the node handle takes no part in it.
InitProxy ==
    /\ cache = [kubernetesVersion |-> <<>>, ip |-> <<>>, role |-> <<>>,
                ports |-> [nil |-> TRUE, m |-> EmptyMap]]
    /\ mu = [w |-> {}, readers |-> {}]
    /\ th = [t \in Threads |-> Idle]
    /\ fact = [version |-> {}, ip |-> {}, role |-> {},
               ports |-> [p \in ContainerPorts |-> {}]]
    /\ ncalls = 0
    /\ environ \in [EnvNames -> EnvValues]
    /\ details = EmptyEnvs
    /\ proxyIdx = 1

getProxyDetails_Iterate ==
    /\ proxyIdx <= Len(proxyEnvs)
    /\ details' = proxyIteration(environ, details, proxyEnvs[proxyIdx])
    /\ proxyIdx' = proxyIdx + 1
    /\ UNCHANGED <<nodeVars, environ>>

NextProxy == getProxyDetails_Iterate

SpecProxy == InitProxy /\ [][NextProxy]_vars

\* ------------------------------------------------------------------ claims

Done(t) == th[t].pc = "done"

\* The invocation of t issued an external command.
Queried(t) == th[t].cmds # <<>>

StringQueries == {"KubeVersion", "IP", "Role"}

\* The cache field a string query serves.
CacheField(op) ==
    CASE op = "KubeVersion" -> cache.kubernetesVersion
      [] op = "IP" -> cache.ip
      [] op = "Role" -> cache.role

PortCached(p) == ~cache.ports.nil /\ p \in DOMAIN cache.ports.m

\* C1: once a call of KubeVersion, IP or Role has populated the cache, every
\* call invoked later (warm: the field was set when it was invoked) issues no
\* external command, returns a nil error and returns the cached value, which
\* is the value every other successful call of that operation returned.
C1_WarmCallsRepeat ==
    \A t \in Threads :
        (th[t].op \in StringQueries /\ th[t].warm) =>
            /\ th[t].pc \in {"rlock", "rlocked", "done"}
            /\ ~Queried(t)
            /\ Done(t) =>
                 /\ th[t].err = Nil
                 /\ th[t].ret # <<>>
                 /\ th[t].ret = CacheField(th[t].op)
                 /\ \A u \in Threads :
                      (Done(u) /\ th[u].op = th[t].op /\ th[u].err = Nil)
                          => th[u].ret = th[t].ret

\* A call that populated the field, and a warm call after it that returned.
C1_Witness ==
    \E t, u \in Threads :
        /\ t # u
        /\ th[u].op = "KubeVersion" /\ Done(u) /\ Queried(u) /\ th[u].err = Nil
        /\ th[t].op = "KubeVersion" /\ Done(t) /\ th[t].warm
        /\ th[t].ret = <<"v", "1">>

\* C2: a Ports(P) invoked once P is in the port map issues no external
\* command and returns the mapped host port, the one every other successful
\* Ports(P) returned; a Ports call returns without an external command only
\* when its own port is in the map (a cached P does not answer for Q); and no
\* step removes or changes an entry of the port map (caching Q leaves P's).
C2_PortsInv ==
    \A t \in Threads :
        th[t].op = "Ports" =>
            /\ th[t].warm =>
                 /\ th[t].pc \in {"rlock", "rlocked", "done"}
                 /\ ~Queried(t)
                 /\ Done(t) => th[t].err = Nil
            /\ (Done(t) /\ ~Queried(t)) =>
                 /\ PortCached(th[t].port)
                 /\ th[t].hostPort = cache.ports.m[th[t].port]
            /\ \A u \in Threads :
                 (Done(t) /\ Done(u) /\ th[u].op = "Ports" /\ th[u].port = th[t].port
                    /\ th[t].err = Nil /\ th[u].err = Nil)
                     => th[u].hostPort = th[t].hostPort

C2_PortsKept ==
    \A p \in ContainerPorts :
        PortCached(p) => (PortCached(p))' /\ cache'.ports.m[p] = cache.ports.m[p]

C2_PortsCachedPerPort == [](C2_PortsInv) /\ [][C2_PortsKept]_vars

\* Ports(P) was answered by the runtime once, and a second Ports(P) returned
\* the same host port from the map.
C2_Witness ==
    \E t, u \in Threads :
        /\ t # u
        /\ th[u].op = "Ports" /\ Done(u) /\ Queried(u) /\ th[u].err = Nil
        /\ th[t].op = "Ports" /\ Done(t) /\ th[t].warm /\ ~Queried(t)
        /\ th[t].port = th[u].port
        /\ th[t].hostPort = 32769

\* The operations that go through the cache.
Queries == StringQueries \cup {"Ports"}

WrongShape(out) == out.err = Nil /\ Len(out.lines) # 1

\* The single line of `out` is one the operation can cache as a set value.
ValidLine(op, out) ==
    /\ out.err = Nil
    /\ Len(out.lines) = 1
    /\ CASE op = "Ports" -> ParseInt(out.lines[1]).err = "nil"
         [] op = "Role" -> Trim(out.lines[1], Quote) # <<>>
         [] OTHER -> out.lines[1] # <<>>

Populated(t) ==
    IF th[t].op = "Ports" THEN PortCached(th[t].port) ELSE CacheField(th[t].op) # <<>>

\* C3: when the external query of KubeVersion, IP, Ports or Role succeeds
\* with a number of lines other than one, the call returns an error and the
\* step leaves the cache as it was (an unset field stays unset); and a call
\* whose query yields exactly one valid line returns a nil error with the
\* field populated.
C3_ShapeInv ==
    \A t \in Threads :
        (th[t].op \in Queries /\ Queried(t) /\ th[t].pc # "exec") =>
            /\ WrongShape(th[t].out) => (Done(t) /\ th[t].err # Nil)
            /\ (Done(t) /\ ValidLine(th[t].op, th[t].out)) =>
                   (th[t].err = Nil /\ Populated(t))

C3_ShapeStep ==
    \A t \in Threads :
        (th[t].op \in Queries /\ th[t].pc = "exec" /\ th'[t].pc # "exec"
           /\ WrongShape(th'[t].out)) => cache' = cache

C3_WrongShapeFails == [](C3_ShapeInv) /\ [][C3_ShapeStep]_vars

\* A query answered with no line failed and left the field unset, and a
\* later query of the same operation, answered with one line, populated it.
C3_Witness ==
    \E t, u \in Threads :
        /\ t # u
        /\ th[t].op = "IP" /\ Done(t) /\ Queried(t)
        /\ th[t].out = [err |-> Nil, lines |-> <<>>] /\ th[t].err # Nil
        /\ th[u].op = "IP" /\ Done(u) /\ Queried(u)
        /\ ValidLine("IP", th[u].out) /\ th[u].err = Nil
        /\ cache.ip = <<"1", "0">>

\* The decimal integers among the lines of PortLines, read by hand.
PortOracle(l) ==
    CASE l = <<"3", "2", "7", "6", "9">> -> [ok |-> TRUE, val |-> 32769]
      [] l = <<"-", "5">> -> [ok |-> TRUE, val |-> -5]
      [] OTHER -> [ok |-> FALSE, val |-> -1]

\* C4: a Ports call whose query yields one line that is a decimal integer
\* returns that integer with a nil error; a Ports call that returns an error
\* (runtime error, wrong line count, unparsable line) returns -1, and the
\* failing step leaves the cache as it was.
C4_PortsInv ==
    \A t \in Threads :
        (th[t].op = "Ports" /\ Done(t) /\ Queried(t)) =>
            /\ (th[t].out.err = Nil /\ Len(th[t].out.lines) = 1
                  /\ PortOracle(th[t].out.lines[1]).ok) =>
                   /\ th[t].err = Nil
                   /\ th[t].hostPort = PortOracle(th[t].out.lines[1]).val
            /\ th[t].err = Nil =>
                   /\ th[t].out.err = Nil
                   /\ Len(th[t].out.lines) = 1
                   /\ PortOracle(th[t].out.lines[1]).ok
            /\ th[t].err # Nil => th[t].hostPort = -1

C4_PortsFailStep ==
    \A t \in Threads :
        (th[t].op = "Ports" /\ th[t].pc = "exec" /\ th'[t].err # Nil) =>
            /\ th'[t].pc = "done"
            /\ cache' = cache

C4_PortsParse == [](C4_PortsInv) /\ [][C4_PortsFailStep]_vars

\* Ports(6443) answered "32769" returned 32769, nil.
C4_Witness ==
    \E t \in Threads :
        /\ th[t].op = "Ports" /\ th[t].port = 6443 /\ Done(t) /\ Queried(t)
        /\ th[t].out.lines = << <<"3", "2", "7", "6", "9">> >>
        /\ th[t].err = Nil /\ th[t].hostPort = 32769

\* r is l without its leading and trailing quote characters.
IsStrippedOf(r, l) ==
    /\ \E i, j \in 0..Len(l) : l = Rep(Quote, i) \o r \o Rep(Quote, j)
    /\ r # <<>> => (r[1] # Quote /\ r[Len(r)] # Quote)

\* C5: a Role call that missed the cache and was answered one line L returns
\* L without its surrounding quote characters ('cp' gives cp) with a nil
\* error, the cache holds that stripped value, and a call served from the
\* cache returns the same stripped string.
C5_RoleStripped ==
    \A t \in Threads :
        (th[t].op = "Role" /\ Done(t)) =>
            /\ (Queried(t) /\ th[t].out.err = Nil /\ Len(th[t].out.lines) = 1) =>
                 /\ th[t].err = Nil
                 /\ IsStrippedOf(th[t].ret, th[t].out.lines[1])
                 /\ th[t].out.lines[1] = <<Quote, "c", "p", Quote>>
                        => th[t].ret = <<"c", "p">>
                 /\ cache.role = th[t].ret
            /\ (~Queried(t) /\ th[t].err = Nil) =>
                 /\ th[t].ret = cache.role
                 /\ \E l \in fact.role : IsStrippedOf(th[t].ret, l)

\* Role() answered 'cp' returned cp and cached cp.
C5_Witness ==
    \E t \in Threads :
        /\ th[t].op = "Role" /\ Done(t) /\ Queried(t)
        /\ th[t].out.lines = << <<Quote, "c", "p", Quote>> >>
        /\ th[t].ret = <<"c", "p">> /\ cache.role = <<"c", "p">>

\* The parent directory of each destination of Dests, read by hand.
ParentOracle(dest) ==
    CASE dest = <<Slash, "a", Slash, "b", Slash, "c">> -> <<Slash, "a", Slash, "b">>
      [] dest = <<"c">> -> <<Dot>>

\* C6: WriteFile(dest, content) issues mkdir -p for the parent directory of
\* dest first and the content write second; the content write is issued only
\* after mkdir succeeded; when mkdir fails the call ends with that one
\* command issued and returns the mkdir error (under its description).
C6_WriteFileOrder ==
    \A t \in Threads :
        th[t].op = "WriteFile" =>
            /\ Len(th[t].cmds) \in {1, 2}
            /\ th[t].cmds[1] = [cmd |-> "mkdir -p", port |-> 0,
                                path |-> ParentOracle(th[t].dest)]
            /\ th[t].pc = "exec" => Len(th[t].cmds) = 1
            /\ Len(th[t].cmds) = 2 =>
                 th[t].cmds[2] = [cmd |-> "cp /dev/stdin", port |-> 0,
                                  path |-> th[t].dest]
            /\ th[t].pc = "exec2" => (Len(th[t].cmds) = 2 /\ th[t].out.err = Nil)
            /\ (Done(t) /\ Len(th[t].cmds) = 1) =>
                 /\ th[t].out.err # Nil
                 /\ th[t].err # Nil
                 /\ SubSeq(th[t].err, 2, Len(th[t].err)) = th[t].out.err

\* WriteFile("/a/b/c") whose mkdir -p /a/b failed: no write was issued and
\* the mkdir error came back.
C6_Witness ==
    \E t \in Threads :
        /\ th[t].op = "WriteFile" /\ Done(t)
        /\ th[t].dest = <<Slash, "a", Slash, "b", Slash, "c">>
        /\ th[t].cmds = <<[cmd |-> "mkdir -p", port |-> 0,
                           path |-> <<Slash, "a", Slash, "b">>]>>
        /\ th[t].out.err = RuntimeErr
        /\ th[t].err # Nil

\* C7: in every step, under every interleaving, a cache field that is set
\* keeps its value: kubernetesVersion, ip and role stay as they are once
\* non-empty, the port map stays initialised and every entry of it stays.
C7_FieldsKept ==
    /\ cache.kubernetesVersion # <<>> => cache'.kubernetesVersion = cache.kubernetesVersion
    /\ cache.ip # <<>> => cache'.ip = cache.ip
    /\ cache.role # <<>> => cache'.role = cache.role
    /\ ~cache.ports.nil => ~cache'.ports.nil
    /\ \A p \in ContainerPorts :
         (~cache.ports.nil /\ p \in DOMAIN cache.ports.m) =>
             /\ p \in DOMAIN cache'.ports.m
             /\ cache'.ports.m[p] = cache.ports.m[p]

C7_SetOnce == [][C7_FieldsKept]_vars

\* Two callers both missed the cache, both queried, and both ran their
\* setter on the same field: the second write met a field already set.
C7_Witness ==
    \E t, u \in Threads :
        /\ t # u
        /\ th[t].op = "IP" /\ Done(t) /\ Queried(t) /\ th[t].err = Nil
        /\ th[u].op = "IP" /\ Done(u) /\ Queried(u) /\ th[u].err = Nil
        /\ cache.ip = <<"1", "0">>

InSetter(t) == th[t].pc = "setter"

InReader(t) == th[t].pc = "rlocked"

\* C8: while a setter runs inside nodeCache.set, no other setter and no read
\* accessor is inside its critical section; the lock's reader set is exactly
\* the accessors inside theirs, and its writer mutex is held by exactly the
\* callers between Lock and Unlock.
C8_LockExcludes ==
    /\ \A t \in Threads :
         InSetter(t) => \A u \in Threads \ {t} : ~InSetter(u) /\ ~InReader(u)
    /\ mu.readers = {t \in Threads : InReader(t)}
    /\ mu.w = {t \in Threads : th[t].pc \in {"drain", "setter"}}

\* A setter is running while another caller waits at an accessor's RLock.
C8_Witness ==
    \E t, u \in Threads :
        /\ InSetter(t)
        /\ th[u].pc = "rlock"

\* Two read accessors inside their critical sections at once.
C8_ReadersShare ==
    \E t, u \in Threads : t # u /\ InReader(t) /\ InReader(u)

\* C9: a Node operation whose external call failed returns a non-nil error,
\* and a value returned with a nil error is one the runtime produced: the
\* line (for Role stripped, for Ports parsed) that the runtime reported for
\* that fact, or the lines of the inspection.
C9_NoErrorSwallowed ==
    \A t \in Threads :
        Done(t) =>
            /\ (Queried(t) /\ th[t].out.err # Nil) => th[t].err # Nil
            /\ th[t].err = Nil =>
                 CASE th[t].op = "KubeVersion" -> th[t].ret \in fact.version
                   [] th[t].op = "IP" -> th[t].ret \in fact.ip
                   [] th[t].op = "Role" ->
                        \E l \in fact.role : IsStrippedOf(th[t].ret, l)
                   [] th[t].op = "Ports" ->
                        \E l \in fact.ports[th[t].port] :
                            PortOracle(l).ok /\ PortOracle(l).val = th[t].hostPort
                   [] th[t].op = "ImageInspect" -> th[t].ret = th[t].out.lines
                   [] OTHER -> TRUE

\* LoadImageArchive whose import failed returned an error.
C9_Witness ==
    \E t \in Threads :
        /\ th[t].op = "LoadImageArchive" /\ Done(t)
        /\ th[t].out.err = RuntimeErr
        /\ th[t].err # Nil

\* C10: every error a Node operation returns carries, outermost, a
\* description added by the operation, and an error of WriteFile names the
\* step that failed and the target path.
C10_EveryErrorWrapped ==
    \A t \in Threads :
        (Done(t) /\ th[t].err # Nil) =>
            /\ th[t].err[1].by = "node"
            /\ th[t].op = "WriteFile" => th[t].err[1].arg = th[t].dest

\* ---- C11 ------------------------------------------------------------------

ProxyReturned == proxyIdx > Len(proxyEnvs)

\* C11: for every environment, the map getProxyDetails returns has, for each
\* of HTTP_PROXY, HTTPS_PROXY and NO_PROXY, the value of the upper-case
\* variable when that is non-empty, otherwise the value of the lower-case
\* variable when that is non-empty, otherwise no entry; and its keys are
\* upper-case names of that fixed set only.
C11_ProxyPrecedence ==
    ProxyReturned =>
        /\ DOMAIN details \subseteq {pair[1] : pair \in ProxyNamePairs}
        /\ \A pair \in ProxyNamePairs :
               LET upper == environ[pair[1]]
                   lower == environ[pair[2]]
               IN  /\ upper # "" =>
                          pair[1] \in DOMAIN details /\ details[pair[1]] = upper
                   /\ (upper = "" /\ lower # "") =>
                          pair[1] \in DOMAIN details /\ details[pair[1]] = lower
                   /\ (upper = "" /\ lower = "") => pair[1] \notin DOMAIN details

\* The function has returned in an environment where the three cases all
\* occur: HTTP_PROXY set with a different http_proxy, HTTPS_PROXY unset with
\* https_proxy set, and neither spelling of NO_PROXY set.
C11_Witness ==
    /\ ProxyReturned
    /\ environ[<<"H", "T", "T", "P", "_", "P", "R", "O", "X", "Y">>]
           = "http://a:3128"
    /\ environ[<<"h", "t", "t", "p", "_", "p", "r", "o", "x", "y">>]
           = "http://b:3128"
    /\ environ[<<"H", "T", "T", "P", "S", "_", "P", "R", "O", "X", "Y">>] = ""
    /\ environ[<<"h", "t", "t", "p", "s", "_", "p", "r", "o", "x", "y">>]
           = "http://b:3128"
    /\ environ[<<"N", "O", "_", "P", "R", "O", "X", "Y">>] = ""
    /\ environ[<<"n", "o", "_", "p", "r", "o", "x", "y">>] = ""
    /\ DOMAIN details =
           { <<"H", "T", "T", "P", "_", "P", "R", "O", "X", "Y">>,
             <<"H", "T", "T", "P", "S", "_", "P", "R", "O", "X", "Y">> }
    /\ details[<<"H", "T", "T", "P", "S", "_", "P", "R", "O", "X", "Y">>]
           = "http://b:3128"

\* ---- C12 ------------------------------------------------------------------

\* Calls t and u ran the same query (the same container port, for Ports),
\* each missed the cache and issued its own external command, and each
\* returned a nil error.
BothQueried(t, u) ==
    /\ t # u
    /\ th[t].op \in Queries /\ th[u].op = th[t].op /\ th[u].port = th[t].port
    /\ Done(t) /\ Queried(t) /\ th[t].err = Nil
    /\ Done(u) /\ Queried(u) /\ th[u].err = Nil

\* C12: callers of the same query that each missed the unset field each issue
\* their own external command (one per caller, nothing is shared between
\* them); with the runtime reporting the same fact to each, they return the
\* same value, and the cache field holds that value, set whenever the line
\* was a valid one.
C12_DuplicateQueriesAgree ==
    \A t, u \in Threads :
        BothQueried(t, u) =>
            /\ Len(th[t].cmds) = 1 /\ Len(th[u].cmds) = 1
            /\ th[t].ret = th[u].ret
            /\ th[t].hostPort = th[u].hostPort
            /\ IF th[t].op = "Ports"
               THEN /\ PortCached(th[t].port)
                    /\ cache.ports.m[th[t].port] = th[t].hostPort
               ELSE /\ CacheField(th[t].op) = th[t].ret
                    /\ ValidLine(th[t].op, th[t].out) => Populated(t)

\* Two callers of KubeVersion both missed, both queried and both returned the
\* version, which the cache now holds.
C12_Witness ==
    \E t, u \in Threads :
        /\ BothQueried(t, u)
        /\ th[t].op = "KubeVersion"
        /\ th[t].ret = <<"v", "1">> /\ th[u].ret = <<"v", "1">>
        /\ cache.kubernetesVersion = <<"v", "1">>

\* The two callers are both waiting for their own external query at once.
C12_BothInFlight ==
    \E t, u \in Threads :
        /\ t # u
        /\ th[t].op = "Ports" /\ th[u].op = "Ports" /\ th[t].port = th[u].port
        /\ th[t].pc = "exec" /\ th[u].pc = "exec"

\* ---- C13 ------------------------------------------------------------------

\* The caller waits for an external command it has issued.
InQuery(t) == th[t].pc \in {"exec", "exec2"}

HoldsLock(t) == t \in mu.readers \/ t \in mu.w

\* C13: no caller holds the cache lock, shared or exclusive, while its
\* external query is in progress; the lock is held only by callers inside an
\* accessor or inside set, so a caller waiting for the runtime never stands
\* between another caller and the cache.
C13_NoLockDuringQuery ==
    /\ \A t \in Threads : InQuery(t) => ~HoldsLock(t)
    /\ \A t \in Threads :
           HoldsLock(t) => th[t].pc \in {"rlocked", "drain", "setter"}

\* While one caller waits for its external query, another caller is inside
\* the exclusive section of set.
C13_Witness ==
    \E t, u \in Threads :
        /\ t # u
        /\ th[t].op \in Queries /\ th[t].pc = "exec"
        /\ th[u].pc = "setter" /\ mu.w = {u}

\* While one caller waits for its external query, another caller reads the
\* cache inside an accessor.
C13_ReadsDuringQuery ==
    \E t, u \in Threads :
        /\ t # u
        /\ th[t].op \in Queries /\ th[t].pc = "exec"
        /\ th[u].pc = "rlocked" /\ mu.readers = {u}

\* ---- C14 ------------------------------------------------------------------

\* Where an invocation of a query stands with respect to its one external
\* command: none before the cache was read, one from the miss on.
C14_QueryCountInv ==
    \A t \in Threads :
        th[t].op \in Queries =>
            /\ Len(th[t].cmds) <= 1
            /\ th[t].pc \in {"rlock", "rlocked"} => th[t].cmds = <<>>
            /\ th[t].pc \in {"exec", "lock", "drain", "setter"} =>
                   Len(th[t].cmds) = 1
            /\ (Done(t) /\ ~Queried(t)) => (th[t].err = Nil /\ Populated(t))
            /\ (Done(t) /\ Queried(t) /\ th[t].out.err # Nil) => th[t].err # Nil

C14_QueryStep ==
    \A t \in Threads :
        (th[t].op \in Queries /\ th'[t] # th[t]) =>
            /\ th[t].pc = "rlocked" =>
                   IF Populated(t)
                   THEN th'[t].pc = "done" /\ th'[t].cmds = <<>>
                            /\ th'[t].err = Nil
                   ELSE th'[t].pc = "exec" /\ Len(th'[t].cmds) = 1
            /\ (th[t].pc = "exec" /\ th'[t].out.err # Nil) =>
                   /\ th'[t].pc = "done" /\ th'[t].err # Nil
                   /\ th'[t].cmds = th[t].cmds
                   /\ cache' = cache
            /\ (th[t].pc \in {"exec", "lock", "drain", "setter"}) =>
                   th'[t].cmds = th[t].cmds

\* C14: one invocation of KubeVersion, IP, Ports or Role issues no external
\* command when it reads the cached value as present and exactly one
\* otherwise; the command is never issued again within the invocation, and a
\* failed command leads in one step to an error return with the cache as it
\* was.
C14_AtMostOneQuery == [](C14_QueryCountInv) /\ [][C14_QueryStep]_vars

\* One invocation of Ports missed and issued its single command, and a later
\* one for the same port was served from the cache with no command.
C14_Witness ==
    \E t, u \in Threads :
        /\ t # u
        /\ th[t].op = "Ports" /\ Done(t) /\ ~Queried(t) /\ th[t].err = Nil
        /\ th[u].op = "Ports" /\ th[u].port = th[t].port
        /\ Done(u) /\ Len(th[u].cmds) = 1 /\ th[u].err = Nil

\* An invocation issued its single command, which failed, and returned the
\* error.
C14_FailedQueryReturns ==
    \E u \in Threads :
        /\ th[u].op \in Queries /\ Done(u) /\ Len(th[u].cmds) = 1
        /\ th[u].out.err # Nil /\ th[u].err # Nil

\* ---- C15 ------------------------------------------------------------------

\* C15: whenever KubeVersion, IP or Role has returned a nil error, the cache
\* field it serves reads as set, that is non-empty and equal to the returned
\* value, whatever single line the query answered with, an empty line and a
\* line of quote characters only included.
C15_NilErrorLeavesFieldSet ==
    \A t \in Threads :
        (th[t].op \in StringQueries /\ Done(t) /\ th[t].err = Nil) =>
            /\ CacheField(th[t].op) # <<>>
            /\ CacheField(th[t].op) = th[t].ret

\* ---- C16 ------------------------------------------------------------------

\* v is what the operation makes of the single line l: the line itself for
\* KubeVersion and IP, the line without its surrounding quotes for Role.
NormalizedLine(op, v, l) ==
    IF op = "Role" THEN IsStrippedOf(v, l) ELSE v = l

\* The answer `out` succeeded with exactly one line (for Ports an integer).
Validated(op, out) ==
    /\ out.err = Nil
    /\ Len(out.lines) = 1
    /\ op = "Ports" => PortOracle(out.lines[1]).ok

C16_CacheInv ==
    /\ cache.kubernetesVersion # <<>> => cache.kubernetesVersion \in fact.version
    /\ cache.ip # <<>> => cache.ip \in fact.ip
    /\ cache.role # <<>> => \E l \in fact.role : IsStrippedOf(cache.role, l)
    /\ ~cache.ports.nil => DOMAIN cache.ports.m \subseteq ContainerPorts
    /\ \A p \in ContainerPorts :
           PortCached(p) =>
               \E l \in fact.ports[p] :
                   PortOracle(l).ok /\ PortOracle(l).val = cache.ports.m[p]
    /\ \A t \in Threads :
           (th[t].op \in Queries /\ Done(t) /\ th[t].err = Nil) =>
               IF Queried(t)
               THEN /\ Validated(th[t].op, th[t].out)
                    /\ IF th[t].op = "Ports"
                       THEN th[t].hostPort = PortOracle(th[t].out.lines[1]).val
                       ELSE NormalizedLine(th[t].op, th[t].ret, th[t].out.lines[1])
               ELSE /\ Populated(t)
                    /\ IF th[t].op = "Ports"
                       THEN th[t].hostPort = cache.ports.m[th[t].port]
                       ELSE th[t].ret = CacheField(th[t].op)

\* Every step that changes the cache is the setter of one caller whose own
\* query was validated, and what it writes is made of that query's line.
C16_WriteStep ==
    cache' # cache =>
        \E t \in Threads :
            /\ th[t].pc = "setter" /\ th'[t].pc = "done"
            /\ Validated(th[t].op, th[t].out)
            /\ CASE th[t].op = "KubeVersion" ->
                      cache'.kubernetesVersion = th[t].out.lines[1]
                 [] th[t].op = "IP" -> cache'.ip = th[t].out.lines[1]
                 [] th[t].op = "Role" ->
                      IsStrippedOf(cache'.role, th[t].out.lines[1])
                 [] th[t].op = "Ports" ->
                      cache'.ports.m[th[t].port]
                          = PortOracle(th[t].out.lines[1]).val
                 [] OTHER -> FALSE

\* C16: every set cache field holds what the operation makes of the single
\* line of a successful, validated external query of that same field; the
\* cache changes only in the setter of a caller whose own query was
\* validated, never after a failed, wrongly shaped or unparsable answer; and
\* every value returned with a nil error is such a result or the cached copy
\* of one.
C16_CacheIntegrity == [](C16_CacheInv) /\ [][C16_WriteStep]_vars

\* Ports(6443) was answered a line that is no integer and failed, leaving no
\* entry; Role was answered 'cp' and the cache holds cp.
C16_Witness ==
    \E t, u \in Threads :
        /\ th[t].op = "Ports" /\ Done(t) /\ th[t].out.lines = << <<"x">> >>
        /\ th[t].err # Nil /\ ~PortCached(th[t].port)
        /\ th[u].op = "Role" /\ Done(u) /\ Queried(u) /\ th[u].err = Nil
        /\ cache.role = <<"c", "p">>
        /\ fact.role = {<<Quote, "c", "p", Quote>>}

\* ---- C17 ------------------------------------------------------------------

\* The entry of container port q is the same before and after the step.
PortEntryKept(q) ==
    LET before == ~cache.ports.nil /\ q \in DOMAIN cache.ports.m
        after == ~cache'.ports.nil /\ q \in DOMAIN cache'.ports.m
    IN  /\ before <=> after
        /\ before => cache'.ports.m[q] = cache.ports.m[q]

\* What a step of caller t may change in the cache: its own field when the
\* step is the setter of a query, nothing otherwise.
C17_FrameStep ==
    \A t \in Threads :
        th'[t] # th[t] =>
            IF th[t].pc = "setter"
            THEN CASE th[t].op = "KubeVersion" ->
                        /\ cache'.ip = cache.ip
                        /\ cache'.role = cache.role
                        /\ cache'.ports = cache.ports
                   [] th[t].op = "IP" ->
                        /\ cache'.kubernetesVersion = cache.kubernetesVersion
                        /\ cache'.role = cache.role
                        /\ cache'.ports = cache.ports
                   [] th[t].op = "Role" ->
                        /\ cache'.kubernetesVersion = cache.kubernetesVersion
                        /\ cache'.ip = cache.ip
                        /\ cache'.ports = cache.ports
                   [] th[t].op = "Ports" ->
                        /\ cache'.kubernetesVersion = cache.kubernetesVersion
                        /\ cache'.ip = cache.ip
                        /\ cache'.role = cache.role
                        /\ \A q \in ContainerPorts \ {th[t].port} :
                               PortEntryKept(q)
                   [] OTHER -> FALSE
            ELSE cache' = cache

\* C17: each query writes only its own cache field, and Ports(P) changes at
\* most the entry of P; calls that return an error, calls served from the
\* cache, and CopyTo, CopyFrom, WriteFile, ImageInspect and LoadImageArchive
\* leave the whole cache as it was.
C17_OwnFieldOnly == [][C17_FrameStep]_vars

\* Role wrote its field while the IP field, written by an earlier call, was
\* set, and the IP field is still there.
C17_Witness ==
    \E t, u \in Threads :
        /\ th[t].op = "Role" /\ Done(t) /\ Queried(t) /\ th[t].err = Nil
        /\ th[u].op = "IP" /\ Done(u) /\ Queried(u) /\ th[u].err = Nil
        /\ cache.role = <<"w">>
        /\ cache.ip = <<"1", "0">>
        /\ cache.kubernetesVersion = <<>> /\ cache.ports.nil

\* Two container ports are cached side by side.
C17_TwoPorts ==
    /\ ~cache.ports.nil
    /\ DOMAIN cache.ports.m = ContainerPorts
    /\ \A p \in ContainerPorts : cache.ports.m[p] = 32769

\* An operation that is no query returned and the cache is as the queries
\* left it.
C17_OtherOperation ==
    \E t, u \in Threads :
        /\ th[t].op = "WriteFile" /\ Done(t) /\ th[t].err = Nil
        /\ th[u].op = "KubeVersion" /\ Done(u) /\ th[u].err = Nil
        /\ cache.kubernetesVersion = <<"v", "1">>

\* ---- C18 ------------------------------------------------------------------

InFlight(t) == th[t].pc \notin {"idle", "done"}

\* Some caller is in the middle of an operation and no caller can step.
LockDeadlock ==
    /\ \E t \in Threads : InFlight(t)
    /\ \A t \in Threads : ~ENABLED Progress(t)

\* C18: under fair scheduling, with every external command eventually
\* answering, every invocation of KubeVersion, IP, Ports and Role eventually
\* returns, every caller that holds the cache lock eventually releases it,
\* and no reachable state is a deadlock on the lock.
C18_QueriesReturn ==
    /\ \A t \in Threads :
           (th[t].op \in Queries /\ InFlight(t)) ~> Done(t)
    /\ \A t \in Threads : HoldsLock(t) ~> ~HoldsLock(t)
    /\ [](~LockDeadlock)

\* A setter holds the writer mutex and waits for a reader, still inside its
\* accessor, to release the lock.
C18_Witness ==
    \E t, u \in Threads :
        /\ t # u
        /\ th[t].pc = "drain" /\ mu.w = {t}
        /\ th[u].pc = "rlocked" /\ u \in mu.readers

====
